---- MODULE Spec2Model ----
(***************************************************************************)
(* Model of csv_tx_resolver (src/src/main.rs): a single pass over a CSV    *)
(* of transaction records that keeps an account map and a map of stored    *)
(* transactions and prints the accounts at end of input.                   *)
(*                                                                         *)
(* Amounts are exact fixed-point values: an integer n stands for n units   *)
(* of the 4-digit grid the deserializer truncates to.  The f64 rounding of *)
(* the source is not modelled.                                             *)
(***************************************************************************)
EXTENDS Integers, FiniteSets, Sequences, TLC

\* ------------------------------------------------------------------ bounds
\* number of records the reader yields before the input ends
MaxRecords == 4
\* largest amount of a deposit or withdrawal row
MaxAmount == 1

\* client: u16 and tx: u32, cut down to two ids each
Clients == {1, 2}
TxIds == {1, 2}
\* an f64 amount may be negative as well as positive
Amounts == {-1} \cup (1..MaxAmount)
\* four_precision_deserializer: an absent amount is unwrap_or(0.0)
NoAmount == 0
\* the amount column of a dispute, resolve or chargeback row is left empty
RefAmounts == {NoAmount}
\* r_type is a free string: the five kinds the loop dispatches on, and one
\* string ("other") that matches no branch
StoredTypes == {"deposit", "withdrawal"}
RTypes == StoredTypes \cup {"dispute", "resolve", "chargeback", "other"}

\* struct Transaction, as one deserialized CSV row
Transaction ==
    [r_type : StoredTypes, client : Clients, tx : TxIds, amount : Amounts]
    \cup [r_type : RTypes \ StoredTypes, client : Clients, tx : TxIds,
          amount : RefAmounts]

VARIABLES
    accounts,          \* AccountMap: client id -> Account
    transactions,      \* TransactionMap: tx id -> Transaction
    record,            \* the record of the current loop iteration
    pos,               \* number of records read so far
    pc,                \* "loop" | "done" (csv_stdout ran, Ok) | "error" (Err)
    prevAccounts,      \* history: accounts before the last record
    prevTransactions,  \* history: transactions before the last record
    seenClients,       \* history: client ids of the records read so far
    chargedBack,       \* history: clients a chargeback has been applied to
    depositBefore,     \* history: the account before a deposit that is
                       \* directly followed by a withdrawal of the same amount
    accounts2,         \* second run (one adjacent pair swapped): accounts
    transactions2,     \* second run: transactions
    pending,           \* second run: the record held back during the swap
    phase              \* second run: "off" | "same" | "held" | "after"

histVars == <<prevAccounts, prevTransactions, seenClients, chargedBack, depositBefore>>
swapVars == <<accounts2, transactions2, pending, phase>>
vars == <<accounts, transactions, record, pos, pc,
          prevAccounts, prevTransactions, seenClients, chargedBack, depositBefore,
          accounts2, transactions2, pending, phase>>

\* ----------------------------------------------------------------- helpers
\* HashMap::new()
EmptyMap == [k \in {} |-> 0]

\* HashMap::insert: adds the key or overwrites its value
insert(map, k, v) == [x \in DOMAIN map \cup {k} |-> IF x = k THEN v ELSE map[x]]

\* HashMap::get: an Option, as a set of at most one element
get(map, k) == IF k \in DOMAIN map THEN {map[k]} ELSE {}

\* the Account literal of create_account_if_not_exists
NewAccount(client) ==
    [available |-> 0, client |-> client, held |-> 0, locked |-> FALSE, total |-> 0]

\* no record read yet
NoRecord == [r_type |-> "", client |-> 0, tx |-> 0, amount |-> NoAmount]

\* no deposit is being followed
NoDeposit ==
    [stage |-> "none", client |-> 0, amount |-> NoAmount, account |-> NewAccount(0)]

\* ------------------------------------------------------------ impl Account
dispute_resets_lock(self, amount) ==
    LET held == self.held + amount
    IN  [self EXCEPT !.held = held, !.available = self.total - held,
                     !.locked = FALSE]

dispute_gated_by_lock(self, amount) ==
    IF ~self.locked
    THEN LET held == self.held + amount
         IN  [self EXCEPT !.held = held, !.available = self.total - held]
    ELSE self

dispute_sets_held(self, amount) ==
    [self EXCEPT !.held = amount, !.available = self.total - amount]

dispute(self, amount) ==
    LET held == self.held + amount
    IN  [self EXCEPT !.held = held, !.available = self.total - held]

resolve(self, amount) ==
    IF self.held > 0
    THEN LET held == self.held - amount
         IN  [self EXCEPT !.held = held, !.available = self.total - held]
    ELSE self

chargeback_unguarded(self, amount) ==
    [self EXCEPT !.held = self.held - amount,
                 !.total = self.total - amount,
                 !.locked = TRUE]

chargeback_keeps_total(self, amount) ==
    IF self.held > 0
    THEN [self EXCEPT !.held = self.held - amount,
                      !.locked = TRUE]
    ELSE self

chargeback(self, amount) ==
    IF self.held > 0
    THEN [self EXCEPT !.held = self.held - amount,
                      !.total = self.total - amount,
                      !.locked = TRUE]
    ELSE self

deposit_total_only(self, deposit_amount) ==
    IF ~self.locked
    THEN [self EXCEPT !.total = self.total + deposit_amount]
    ELSE self

deposit_ignores_lock(self, deposit_amount) ==
    [self EXCEPT !.total = self.total + deposit_amount,
                 !.available = self.available + deposit_amount]

deposit(self, deposit_amount) ==
    IF ~self.locked
    THEN [self EXCEPT !.total = self.total + deposit_amount,
                      !.available = self.available + deposit_amount]
    ELSE self

withdraw_unchecked(self, withdraw_amount) ==
    IF ~self.locked
    THEN [self EXCEPT !.total = self.total - withdraw_amount,
                      !.available = self.available - withdraw_amount]
    ELSE self

withdraw_non_strict(self, withdraw_amount) ==
    IF withdraw_amount <= self.available /\ ~self.locked
    THEN [self EXCEPT !.total = self.total - withdraw_amount,
                      !.available = self.available - withdraw_amount]
    ELSE self

withdraw_available_only(self, withdraw_amount) ==
    IF withdraw_amount < self.available /\ ~self.locked
    THEN [self EXCEPT !.available = self.available - withdraw_amount]
    ELSE self

withdraw(self, withdraw_amount) ==
    IF withdraw_amount < self.available /\ ~self.locked
    THEN [self EXCEPT !.total = self.total - withdraw_amount,
                      !.available = self.available - withdraw_amount]
    ELSE self

\* -------------------------------------------------------- impl Transaction
save_deposits_only(self, txs) ==
    IF self.r_type = "deposit"
    THEN insert(txs, self.tx,
                [r_type |-> self.r_type, amount |-> self.amount,
                 client |-> self.client, tx |-> self.tx])
    ELSE txs

save_keeps_first(self, txs) ==
    IF (self.r_type = "withdrawal" \/ self.r_type = "deposit") /\ self.tx \notin DOMAIN txs
    THEN insert(txs, self.tx,
                [r_type |-> self.r_type, amount |-> self.amount,
                 client |-> self.client, tx |-> self.tx])
    ELSE txs

save_every_kind(self, txs) ==
    insert(txs, self.tx,
           [r_type |-> self.r_type, amount |-> self.amount,
            client |-> self.client, tx |-> self.tx])

\* Transaction::save: the map after the call
save(self, txs) ==
    IF self.r_type = "withdrawal" \/ self.r_type = "deposit"
    THEN insert(txs, self.tx,
                [r_type |-> self.r_type, amount |-> self.amount,
                 client |-> self.client, tx |-> self.tx])
    ELSE txs

create_account_only_for_stored(self, accts) ==
    IF self.client \in DOMAIN accts \/ self.r_type \notin {"withdrawal", "deposit"}
    THEN accts
    ELSE insert(accts, self.client, NewAccount(self.client))

\* Transaction::create_account_if_not_exists: the map after the call
create_account_if_not_exists(self, accts) ==
    IF get(accts, self.client) # {}
    THEN accts
    ELSE insert(accts, self.client, NewAccount(self.client))

\* ----------------------------------------------------------- read_from_file
\* the closures handed to and_modify: the Account method named `method`,
\* called on this_account with `amount`
call(method, this_account, amount) ==
    IF method = "deposit" THEN deposit(this_account, amount)
    ELSE IF method = "withdraw" THEN withdraw(this_account, amount)
    ELSE IF method = "dispute" THEN dispute(this_account, amount)
    ELSE IF method = "resolve" THEN resolve(this_account, amount)
    ELSE chargeback(this_account, amount)

\* Entry::and_modify: runs the closure on the value of an occupied entry,
\* and does nothing on a vacant one
and_modify(accts, id, method, amount) ==
    IF id \in DOMAIN accts
    THEN [accts EXCEPT ![id] = call(method, @, amount)]
    ELSE accts

referenced_amount_or_own(rec, txs) ==
    LET referenced_tx_opt == get(txs, rec.tx)
    IN  IF referenced_tx_opt # {}
        THEN {referenced_tx.amount : referenced_tx \in referenced_tx_opt}
        ELSE {rec.amount}

\* transactions.get(&record.tx) and the match on it: the amount the Some arm
\* passes on, as a set of at most one element (empty in the None arm)
referenced_amount(rec, txs) ==
    LET referenced_tx_opt == get(txs, rec.tx)
    IN  {referenced_tx.amount : referenced_tx \in referenced_tx_opt}

with_referenced_on_owner(rec, accts, txs, method) ==
    LET referenced_tx_opt == get(txs, rec.tx)
    IN  IF referenced_tx_opt # {}
        THEN LET referenced_tx == CHOOSE t \in referenced_tx_opt : TRUE
             IN  and_modify(accts, referenced_tx.client, method, referenced_tx.amount)
        ELSE accts

\* the body shared by the dispute, resolve and chargeback branches: in the
\* Some arm the method is called with the stored amount, the None arm is ()
with_referenced(rec, accts, txs, method) ==
    LET amount_opt == referenced_amount(rec, txs)
    IN  IF amount_opt # {}
        THEN and_modify(accts, rec.client, method, CHOOSE a \in amount_opt : TRUE)
        ELSE accts

\* the if / else-if chain on record.r_type: the account map after it
dispatch(rec, accts, txs) ==
    IF rec.r_type = "deposit"
    THEN and_modify(accts, rec.client, "deposit", rec.amount)
    ELSE IF rec.r_type = "withdrawal"
    THEN and_modify(accts, rec.client, "withdraw", rec.amount)
    ELSE IF rec.r_type = "dispute"
    THEN with_referenced(rec, accts, txs, "dispute")
    ELSE IF rec.r_type = "resolve"
    THEN with_referenced(rec, accts, txs, "resolve")
    ELSE IF rec.r_type = "chargeback"
    THEN with_referenced(rec, accts, txs, "chargeback")
    ELSE accts

\* one iteration of the for loop, on any pair of maps
LoopAccounts(rec, accts, txs) ==
    dispatch(rec, create_account_if_not_exists(rec, accts), save(rec, txs))

LoopTransactions(rec, txs) == save(rec, txs)

\* ---------------------------------------------------------------- history
\* the chargeback method is called and passes its guard
ChargebackApplies(rec, accts, txs) ==
    /\ rec.r_type = "chargeback"
    /\ rec.tx \in DOMAIN txs
    /\ rec.client \in DOMAIN accts
    /\ accts[rec.client].held > 0

NextDepositBefore(rec, accts) ==
    IF rec.r_type = "deposit"
    THEN [stage |-> "deposited", client |-> rec.client, amount |-> rec.amount,
          account |-> accts[rec.client]]
    ELSE IF /\ rec.r_type = "withdrawal"
            /\ depositBefore.stage = "deposited"
            /\ depositBefore.client = rec.client
            /\ depositBefore.amount = rec.amount
    THEN [depositBefore EXCEPT !.stage = "withdrawn"]
    ELSE NoDeposit

\* ---------------------------------------------------------------- actions
Init ==
    /\ accounts = EmptyMap
    /\ transactions = EmptyMap
    /\ record = NoRecord
    /\ pos = 0
    /\ pc = "loop"
    /\ prevAccounts = EmptyMap
    /\ prevTransactions = EmptyMap
    /\ seenClients = {}
    /\ chargedBack = {}
    /\ depositBefore = NoDeposit
    /\ accounts2 = EmptyMap
    /\ transactions2 = EmptyMap
    /\ pending = NoRecord
    /\ phase = "off"

\* the reader yields Ok(r): one iteration of the loop
ProcessRecord(r) ==
    /\ pc = "loop"
    /\ pos < MaxRecords
    /\ LET created == create_account_if_not_exists(r, accounts)
       IN  /\ record' = r
           /\ transactions' = LoopTransactions(r, transactions)
           /\ accounts' = LoopAccounts(r, accounts, transactions)
           /\ pos' = pos + 1
           /\ pc' = "loop"
           /\ prevAccounts' = accounts
           /\ prevTransactions' = transactions
           /\ seenClients' = seenClients \cup {r.client}
           /\ chargedBack' =
                IF ChargebackApplies(r, created, save(r, transactions))
                THEN chargedBack \cup {r.client}
                ELSE chargedBack
           /\ depositBefore' = NextDepositBefore(r, created)

\* the reader yields Err: `result?` returns it and nothing is printed
ParseError ==
    /\ pc = "loop"
    /\ pc' = "error"
    /\ UNCHANGED <<accounts, transactions, record, pos>>
    /\ UNCHANGED histVars

\* the reader is exhausted: csv_stdout(&accounts), Ok(())
Finish ==
    /\ pc = "loop"
    /\ pc' = "done"
    /\ UNCHANGED <<accounts, transactions, record, pos>>
    /\ UNCHANGED histVars

ReadRecord_overdraft_aborts(r) ==
    IF /\ r.r_type = "withdrawal"
       /\ r.client \in DOMAIN accounts
       /\ r.amount >= accounts[r.client].available
    THEN pos < MaxRecords /\ ParseError /\ UNCHANGED swapVars
    ELSE ProcessRecord(r) /\ UNCHANGED swapVars

\* the three outcomes of one turn of the loop, for the single run
ReadRecord(r) == ProcessRecord(r) /\ UNCHANGED swapVars

Abort == ParseError /\ UNCHANGED swapVars

EndOfInput == Finish /\ UNCHANGED swapVars

Next ==
    \/ \E r \in Transaction : ReadRecord(r)
    \/ Abort
    \/ EndOfInput

Spec == Init /\ [][Next]_vars

\* ------------------------------------------------- a well-formed input file
\* Every row deserializes, so the reader never yields Err.  The program is
\* one synchronous thread: as long as the loop or the output is left to
\* run, it runs.
WellFormedNext ==
    \/ \E r \in Transaction : ReadRecord(r)
    \/ EndOfInput

WellFormedSpec == Init /\ [][WellFormedNext]_vars /\ WF_vars(WellFormedNext)

\* ------------------------------------------- an input without negative amounts
\* largest amount of a deposit or withdrawal row of such an input
MaxPositive == 2

\* rows whose amount is absent or positive
NonNegativeTransaction ==
    [r_type : StoredTypes, client : Clients, tx : TxIds, amount : NoAmount..MaxPositive]
    \cup [r_type : RTypes \ StoredTypes, client : Clients, tx : TxIds,
          amount : RefAmounts]

NonNegativeNext ==
    \/ \E r \in NonNegativeTransaction : ReadRecord(r)
    \/ Abort
    \/ EndOfInput

NonNegativeSpec == Init /\ [][NonNegativeNext]_vars

\* ------------------------------------------------- two runs, one pair swapped
\* The first run is the program above.  The second run reads the same
\* records, except that one adjacent pair of records with different client
\* ids reaches it in the opposite order.
SwapInit ==
    /\ accounts = EmptyMap
    /\ transactions = EmptyMap
    /\ record = NoRecord
    /\ pos = 0
    /\ pc = "loop"
    /\ prevAccounts = EmptyMap
    /\ prevTransactions = EmptyMap
    /\ seenClients = {}
    /\ chargedBack = {}
    /\ depositBefore = NoDeposit
    /\ accounts2 = EmptyMap
    /\ transactions2 = EmptyMap
    /\ pending = NoRecord
    /\ phase = "same"

\* both runs read r
Lockstep(r) ==
    /\ phase \in {"same", "after"}
    /\ ProcessRecord(r)
    /\ accounts2' = LoopAccounts(r, accounts2, transactions2)
    /\ transactions2' = LoopTransactions(r, transactions2)
    /\ UNCHANGED <<pending, phase>>

\* the first of the swapped pair: the first run reads r, the second run
\* will read it after the next record
HoldBack(r) ==
    /\ phase = "same"
    /\ pos + 1 < MaxRecords
    /\ ProcessRecord(r)
    /\ pending' = r
    /\ phase' = "held"
    /\ UNCHANGED <<accounts2, transactions2>>

\* the second of the swapped pair, of another client: the first run reads
\* r, the second run reads r and then the record held back
SwapIn(r) ==
    /\ phase = "held"
    /\ r.client # pending.client
    /\ ProcessRecord(r)
    /\ LET txs1 == LoopTransactions(r, transactions2)
           accts1 == LoopAccounts(r, accounts2, transactions2)
       IN  /\ transactions2' = LoopTransactions(pending, txs1)
           /\ accounts2' = LoopAccounts(pending, accts1, txs1)
    /\ pending' = NoRecord
    /\ phase' = "after"

\* end of input, for both runs
SwapFinish ==
    /\ phase # "held"
    /\ Finish
    /\ UNCHANGED swapVars

SwapNext ==
    \/ \E r \in Transaction : Lockstep(r)
    \/ \E r \in Transaction : HoldBack(r)
    \/ \E r \in Transaction : SwapIn(r)
    \/ SwapFinish

SwapSpec == SwapInit /\ [][SwapNext]_vars

\* ------------------------------------------------------------------ claims
\* a record has been read: record, prevAccounts and prevTransactions are set
Processed == pos > 0

\* the account of the last record's client as the dispatch found it: the
\* stored one, or the fresh one create_account_if_not_exists inserted
Before ==
    IF record.client \in DOMAIN prevAccounts
    THEN prevAccounts[record.client]
    ELSE NewAccount(record.client)

\* the same account after the record
After == accounts[record.client]

ReferenceTypes == {"dispute", "resolve", "chargeback"}

\* C1: in every reachable state every account of the account map has
\* total = available + held, whatever records were applied or ignored.
Balanced ==
    \A c \in DOMAIN accounts :
        accounts[c].total = accounts[c].available + accounts[c].held

\* C1 witness: a chargeback has just changed an account that still has funds
\* held and a non-zero available balance.
BalancedWitness ==
    /\ Processed
    /\ record.r_type = "chargeback"
    /\ record.client \in chargedBack
    /\ After # Before
    /\ After.held # 0
    /\ After.available # 0

\* C2: a withdrawal record subtracts its amount from total and available
\* when the account is unlocked and amount < available, and otherwise (also
\* when amount = available) leaves the account as it was.
WithdrawStrict ==
    (Processed /\ record.r_type = "withdrawal") =>
        IF ~Before.locked /\ record.amount < Before.available
        THEN After = [Before EXCEPT !.total = @ - record.amount,
                                    !.available = @ - record.amount]
        ELSE After = Before

\* C2 witness: a withdrawal of exactly the available balance of an unlocked
\* account was read and left the account unchanged.
WithdrawFullBalance ==
    /\ Processed
    /\ record.r_type = "withdrawal"
    /\ ~Before.locked
    /\ record.amount = Before.available
    /\ After = Before

\* C3: after a chargeback has been applied to an account, a deposit or
\* withdrawal record for it leaves available, held and total (and locked)
\* as they were.
LockedNoOp ==
    (Processed /\ record.r_type \in StoredTypes /\ record.client \in chargedBack) =>
        After = Before

\* C3 witness: a deposit of a non-zero amount was read for a charged-back
\* account.
LockedNoOpWitness ==
    /\ Processed
    /\ record.r_type = "deposit"
    /\ record.amount # 0
    /\ record.client \in chargedBack
    /\ Before.locked

\* C4: locked is terminal: an account that is locked is still in the map
\* and still locked after every step.
LockedTerminal ==
    [][\A c \in DOMAIN accounts :
          accounts[c].locked => (c \in DOMAIN accounts' /\ accounts'[c].locked)]_vars

\* C4 witness: a record changed the balances of an account that was locked
\* before it, and the account is still locked.
LockedStaysWitness ==
    /\ Processed
    /\ record.client \in DOMAIN prevAccounts
    /\ prevAccounts[record.client].locked
    /\ After.locked
    /\ After # Before

UnknownTxNoChange ==
    (/\ Processed
     /\ record.r_type \in ReferenceTypes
     /\ record.tx \notin DOMAIN prevTransactions) =>
        \A c \in DOMAIN prevAccounts :
            c \in DOMAIN accounts /\ accounts[c] = prevAccounts[c]

\* C6 witness: a chargeback of an unknown tx was read for an existing
\* account that has funds held.
UnknownTxWitness ==
    /\ Processed
    /\ record.r_type = "chargeback"
    /\ record.tx \notin DOMAIN prevTransactions
    /\ record.client \in DOMAIN prevAccounts
    /\ prevAccounts[record.client].held > 0

\* C7: a resolve or chargeback record read while the account's held <= 0
\* leaves available, held, total and locked unchanged, also when the
\* referenced transaction is stored.
NothingHeldIgnored ==
    (Processed /\ record.r_type \in {"resolve", "chargeback"} /\ Before.held <= 0) =>
        After = Before

\* C7 witness: a chargeback of a stored transaction was read for an existing
\* account with nothing held.
NothingHeldWitness ==
    /\ Processed
    /\ record.r_type = "chargeback"
    /\ record.tx \in DOMAIN prevTransactions
    /\ prevTransactions[record.tx].amount # 0
    /\ record.client \in DOMAIN prevAccounts
    /\ Before.held <= 0
    /\ ~After.locked

\* the account a first record leaves behind, starting from the fresh one
FirstRecordEffect ==
    LET fresh == NewAccount(record.client)
        amount == record.amount
    IN  IF record.r_type = "deposit"
        THEN After = [fresh EXCEPT !.available = amount, !.total = amount]
        ELSE IF record.r_type = "withdrawal" /\ amount < 0
        THEN After = [fresh EXCEPT !.available = 0 - amount, !.total = 0 - amount]
        ELSE IF record.r_type = "dispute" /\ record.tx \in DOMAIN prevTransactions
        THEN LET stored == prevTransactions[record.tx].amount
             IN  After = [fresh EXCEPT !.held = stored, !.available = 0 - stored]
        ELSE After = fresh

\* C8: the account map holds exactly the client ids of the records read so
\* far (ignored records included), each under its own key; no account is
\* removed; and a client's first record acts on an account with available =
\* held = total = 0 and locked = false.
OneAccountPerSeenClient ==
    /\ DOMAIN accounts = seenClients
    /\ DOMAIN prevAccounts \subseteq DOMAIN accounts
    /\ \A c \in DOMAIN accounts : accounts[c].client = c
    /\ (Processed /\ record.client \notin DOMAIN prevAccounts) =>
          (record.client \in DOMAIN accounts /\ FirstRecordEffect)

\* C8 witness: a dispute of an unknown tx was the first record of a client,
\* while another client already had an account.
NewClientWitness ==
    /\ Processed
    /\ record.r_type = "dispute"
    /\ record.tx \notin DOMAIN transactions
    /\ record.client \notin DOMAIN prevAccounts
    /\ prevAccounts # EmptyMap
    /\ After = NewAccount(record.client)

\* C9 as stated: swapping two adjacent records of different clients yields
\* the same final state for every account.
SwapSameFinal ==
    (pc = "done" /\ phase = "after") => accounts2 = accounts

\* C10 as stated: an entry of the stored-transaction map never changes and
\* is never removed.
StoredImmutable ==
    [][\A t \in DOMAIN transactions :
          t \in DOMAIN transactions' /\ transactions'[t] = transactions[t]]_vars

\* C11: every entry of the stored-transaction map has kind deposit or
\* withdrawal, and a dispute, resolve or chargeback record leaves the map
\* exactly as it was.
OnlyDepositsAndWithdrawalsStored ==
    /\ \A t \in DOMAIN transactions : transactions[t].r_type \in StoredTypes
    /\ (Processed /\ record.r_type \in ReferenceTypes) =>
          transactions = prevTransactions

\* C11 witness: a dispute of a stored tx changed its account while the map
\* of stored transactions stayed the same.
DisputeNotStoredWitness ==
    /\ Processed
    /\ record.r_type = "dispute"
    /\ record.tx \in DOMAIN prevTransactions
    /\ After # Before
    /\ transactions = prevTransactions

\* C13: a dispute record whose tx id is stored adds the stored amount to
\* held, sets available to total - held (so available falls by the same
\* amount) and leaves total and locked unchanged, whatever is already held.
DisputeAdditive ==
    (Processed /\ record.r_type = "dispute" /\ record.tx \in DOMAIN prevTransactions) =>
        LET amount == prevTransactions[record.tx].amount
        IN  /\ After.held = Before.held + amount
            /\ After.available = After.total - After.held
            /\ After.available = Before.available - amount
            /\ After.total = Before.total
            /\ After.locked = Before.locked

\* C13 witness: a tx was disputed while its amount was already held, and
\* twice the amount is held now.
DisputeTwiceWitness ==
    /\ Processed
    /\ record.r_type = "dispute"
    /\ record.tx \in DOMAIN prevTransactions
    /\ prevTransactions[record.tx].amount # 0
    /\ Before.held = prevTransactions[record.tx].amount
    /\ After.held = 2 * prevTransactions[record.tx].amount

\* C14: a chargeback record whose tx id is stored, read while held > 0,
\* subtracts the stored amount from held and total, sets locked and leaves
\* available unchanged.
ChargebackEffect ==
    (/\ Processed
     /\ record.r_type = "chargeback"
     /\ record.tx \in DOMAIN prevTransactions
     /\ Before.held > 0) =>
        LET amount == prevTransactions[record.tx].amount
        IN  /\ After.held = Before.held - amount
            /\ After.total = Before.total - amount
            /\ After.locked
            /\ After.available = Before.available

\* C14 witness: a chargeback of a stored tx with a non-zero amount was read
\* for an unlocked account with funds held.
ChargebackWitness ==
    /\ Processed
    /\ record.r_type = "chargeback"
    /\ record.tx \in DOMAIN prevTransactions
    /\ prevTransactions[record.tx].amount # 0
    /\ Before.held > 0
    /\ ~Before.locked
    /\ After.locked

\* C12: on a well-formed input every step either reads the next record
\* (one more record read, the loop goes on) or ends the run with the ledger
\* printed; the run never ends in an error and eventually is finished,
\* whatever business rules the records break.
RunFinishes ==
    /\ [][\/ pc = "loop" /\ pc' = "loop" /\ pos' = pos + 1
          \/ pc = "loop" /\ pc' = "done" /\ pos' = pos /\ accounts' = accounts]_vars
    /\ [](pc # "error")
    /\ <>(pc = "done")

\* C12 witness: the run finished after a last record that broke a business
\* rule (a withdrawal of more than the available balance) and was ignored.
FinishedAfterOverdraftWitness ==
    /\ pc = "done"
    /\ pos = MaxRecords
    /\ record.r_type = "withdrawal"
    /\ record.amount > Before.available
    /\ After = Before

StoredAmountApplied ==
    /\ (Processed /\ record.r_type \in StoredTypes) =>
          /\ record.tx \in DOMAIN transactions
          /\ transactions[record.tx].amount = record.amount
          /\ \A t \in DOMAIN prevTransactions \ {record.tx} :
                t \in DOMAIN transactions /\ transactions[t] = prevTransactions[t]
    /\ (Processed /\ record.r_type \notin StoredTypes) =>
          transactions = prevTransactions
    /\ (Processed /\ record.r_type \in ReferenceTypes
                  /\ record.tx \in DOMAIN prevTransactions) =>
          LET amount == prevTransactions[record.tx].amount
          IN  /\ record.r_type = "dispute" => After.held = Before.held + amount
              /\ (record.r_type # "dispute" /\ Before.held > 0) =>
                    After.held = Before.held - amount

\* C16 witness: a resolve moved held by the stored amount of its tx, which
\* differs from the amount of the resolve row.
StoredAmountWitness ==
    /\ Processed
    /\ record.r_type = "resolve"
    /\ record.tx \in DOMAIN prevTransactions
    /\ prevTransactions[record.tx].amount # record.amount
    /\ Before.held > 0
    /\ Before.held - After.held = prevTransactions[record.tx].amount

\* C17: a record changes no account other than the one keyed by its own
\* client id, also when it refers to a transaction stored by another client.
OnlyOwnAccountChanges ==
    Processed =>
        \A c \in DOMAIN accounts \ {record.client} :
            c \in DOMAIN prevAccounts /\ accounts[c] = prevAccounts[c]

\* C17 witness: a dispute by one client of a transaction stored by another
\* client changed the disputing client's account, and the owner has one.
ForeignDisputeWitness ==
    /\ Processed
    /\ record.r_type = "dispute"
    /\ record.tx \in DOMAIN prevTransactions
    /\ prevTransactions[record.tx].client # record.client
    /\ prevTransactions[record.tx].client \in DOMAIN accounts
    /\ After # Before

\* C18: a withdrawal cannot overdraw: an account whose available was not
\* negative before a withdrawal record is not negative after it, and after a
\* withdrawal that was applied available is above zero.
NoOverdraft ==
    (Processed /\ record.r_type = "withdrawal") =>
        /\ Before.available >= 0 => After.available >= 0
        /\ After # Before => After.available > 0

\* C18 witness: a withdrawal of a positive amount was applied to an account
\* with a positive available balance.
AppliedWithdrawalWitness ==
    /\ Processed
    /\ record.r_type = "withdrawal"
    /\ record.amount > 0
    /\ Before.available > 0
    /\ After.available = Before.available - record.amount

\* the held balance of client c after a dispute row for tx t read next
HeldAfterDispute(c, t) ==
    LoopAccounts([r_type |-> "dispute", client |-> c, tx |-> t, amount |-> NoAmount],
                 accounts, transactions)[c].held

\* the held balance of client c now (zero if c has no account yet)
HeldNow(c) == IF c \in DOMAIN accounts THEN accounts[c].held ELSE 0

\* C19: a deposit or withdrawal record is in the stored-transaction map
\* after its iteration whether or not it changed the account, and a dispute
\* of its tx id read next adds its amount to held.
StoredEvenIfIgnored ==
    (Processed /\ record.r_type \in StoredTypes) =>
        /\ record.tx \in DOMAIN transactions
        /\ transactions[record.tx] = record
        /\ \A c \in Clients : HeldAfterDispute(c, record.tx) = HeldNow(c) + record.amount

\* C19 witness: a deposit ignored on a locked account is in the map with its
\* amount, and a dispute of it read next would add that amount to held.
RejectedButStoredWitness ==
    /\ Processed
    /\ After = Before
    /\ record.r_type = "deposit"
    /\ Before.locked
    /\ transactions[record.tx].amount = record.amount
    /\ HeldAfterDispute(record.client, record.tx) = After.held + record.amount

\* C20 as stated: on an input whose deposit and withdrawal amounts are all
\* non-negative, every account has held >= 0 in every reachable state.
HeldNeverNegative ==
    \A c \in DOMAIN accounts : accounts[c].held >= 0

====
